---- MODULE Spec2Model ----
(***************************************************************************)
(* A model of jscom-mini-services: the configuration resolver (config.py), *)
(* the API client (client.py) with its error-body parser, the commands of  *)
(* the CLI (cli/main.py) and the two handlers of the service (lambdas).    *)
(*                                                                         *)
(* Python data strings are sequences of one-character strings, so that     *)
(* rstrip("/"), the substring test of `in` and float() are computed and    *)
(* not assumed.  Python objects decoded from JSON are tagged records.      *)
(***************************************************************************)
EXTENDS Integers, Sequences, FiniteSets, TLC

VARIABLES
    environ,    \* os.environ: the three JSCOM_API_* variables
    args,       \* the arguments load_config was called with
    config,     \* the Config load_config returned
    client,     \* the constructed JscomApiClient
    call,       \* the operation that ran last
    params,     \* the arguments of the last client call
    request,    \* the request the last client call handed to the session
    response,   \* what the session answered
    outcome,    \* what the last operation returned or raised
    state,      \* cli/main.py: the module-level State of the global options
    cmd,        \* the command being run and its options
    pc,         \* where the command is
    target_ip,  \* dns_update: target_ip
    pending,    \* the exception propagating out of the command body, or out of the command
    acquired,   \* sessions created in this invocation
    released,   \* sessions closed in this invocation
    inflight,   \* the request the session has not answered yet
    sent,       \* the requests issued in this invocation, in order
    stdout,     \* what the command printed on console
    exit_code,  \* the exit code of the invocation
    svc_environ,\* lambdas: os.environ of the service (AUTH_TOKEN, HOSTED_ZONE_ID)
    event,      \* the event the handler was invoked with
    route53,    \* the change_resource_record_sets calls of the invocation
    reply       \* what the handler returned or raised

lib_vars == <<environ, args, config, client, call, params, request, response, outcome>>
cli_vars == <<state, cmd, pc, target_ip, pending, acquired, released, inflight, sent,
              stdout, exit_code>>
svc_vars == <<svc_environ, event, route53, reply>>
vars == <<lib_vars, cli_vars, svc_vars>>

(***************************************************************************)
(* Bounds of the model.                                                    *)
(***************************************************************************)
MaxUrlLen == 2      \* longest base URL drawn as an argument or from the environment
MaxArrLen == 2      \* longest JSON array drawn as a response body
MaxSlashes == 2     \* most trailing slashes of a --base-url value

(***************************************************************************)
(* Python values.                                                          *)
(***************************************************************************)
\* None and a present value (str | None, float | None, os.getenv results)
None == [some |-> FALSE]
Some(x) == [some |-> TRUE, val |-> x]

\* bool(x) of a str | None value: None and "" are falsy
Truthy(o) == o.some /\ Len(o.val) > 0

\* a or b
PyOr(a, b) == IF Truthy(a) THEN a ELSE b

\* floats: the integers of the model and NaN
Num(n) == [nan |-> FALSE, v |-> n]
NaN == [nan |-> TRUE, v |-> 0]

\* a <= b and a > b on floats: every comparison with NaN is False
FloatLe(a, b) == ~a.nan /\ ~b.nan /\ a.v <= b.v
FloatGt(a, b) == ~a.nan /\ ~b.nan /\ a.v > b.v

\* the objects json decoding produces
JNull == [t |-> "null"]
JBool(b) == [t |-> "bool", b |-> b]
JNum(n) == [t |-> "num", n |-> n]
JStr(s) == [t |-> "str", s |-> s]
JArr(a) == [t |-> "arr", a |-> a]
JObj(f) == [t |-> "obj", o |-> f]

\* the key strings the client looks up
ERROR == <<"e", "r", "r", "o", "r">>
MESSAGE == <<"m", "e", "s", "s", "a", "g", "e">>
IP == <<"i", "p">>
CHANGE_INFO == <<"c", "h", "a", "n", "g", "e", "_", "i", "n", "f", "o">>

\* sub occurs in s as a contiguous substring
IsSubstr(sub, s) ==
    \E i \in 0..(Len(s) - Len(sub)) :
        \A j \in 1..Len(sub) : s[i + j] = sub[j]

\* `key in obj` raises TypeError when obj is not a container
InRaises(obj) == obj.t \in {"null", "bool", "num"}

\* the value of `key in obj` for a dict (key), a list (element) or a str (substring)
PyIn(key, obj) ==
    CASE obj.t = "obj" -> key \in DOMAIN obj.o
      [] obj.t = "arr" -> \E i \in 1..Len(obj.a) : obj.a[i] = JStr(key)
      [] obj.t = "str" -> IsSubstr(key, obj.s)
      [] OTHER -> FALSE

\* obj[key] with a str key: the value, KeyError for a dict without the key,
\* TypeError for everything that is not a dict
GetItem(obj, key) ==
    IF obj.t = "obj"
    THEN IF key \in DOMAIN obj.o
         THEN [exc |-> "", val |-> obj.o[key]]
         ELSE [exc |-> "KeyError", val |-> JNull]
    ELSE [exc |-> "TypeError", val |-> JNull]

(***************************************************************************)
(* Python strings built by the code: a sequence of pieces, each a literal  *)
(* of the source, a data string, or the str() of a value.                  *)
(***************************************************************************)
Lit(s) == [k |-> "lit", lit |-> s]
Chars(s) == [k |-> "chars", chars |-> s]
Repr(v) == [k |-> "repr", repr |-> v]
Dumps(v) == [k |-> "dumps", dumps |-> v]     \* the JSON text of v

\* str(v): a str is itself, anything else is its printed form
PyStr(v) == IF v.t = "str" THEN <<Chars(v.s)>> ELSE <<Repr(v)>>

\* bool(s) of a built string
NonEmptyText(s) ==
    \E i \in 1..Len(s) :
        CASE s[i].k = "lit" -> s[i].lit # ""
          [] s[i].k = "chars" -> Len(s[i].chars) > 0
          [] OTHER -> TRUE

\* what a call does: return a value or raise an exception with a message
Return(v) == [kind |-> "return", exc |-> "", val |-> v]
Raise(e, msg) == [kind |-> "raise", exc |-> e, msg |-> msg]

(***************************************************************************)
(* HTTP: what the session hands back to a call.                            *)
(***************************************************************************)
\* response.json() raises ValueError, or returns the decoded object
NoJson == [ok |-> FALSE]
Json(v) == [ok |-> TRUE, val |-> v]

\* session.get / session.post raised a RequestException
TransportFailure == [failed |-> TRUE, status_code |-> 0, text |-> <<>>, json |-> NoJson]

\* a received response: status_code, text, and the outcome of json()
Response(status, text, json) ==
    [failed |-> FALSE, status_code |-> status, text |-> text, json |-> json]

(***************************************************************************)
(* client.py                                                               *)
(***************************************************************************)
\* the message of a TypeError raised by the interpreter
TypeErrorMsg == <<Lit("TypeError")>>

_parse_error_response(resp) ==
    IF ~resp.json.ok
    THEN \* except ValueError: response.text or f"HTTP {status_code}"
         Return(IF NonEmptyText(resp.text)
                THEN resp.text
                ELSE <<Lit("HTTP "), Repr(JNum(resp.status_code))>>)
    ELSE LET error_data == resp.json.val
             error == GetItem(error_data, ERROR)
             message == GetItem(error_data, MESSAGE)
         IN  IF InRaises(error_data)
             THEN Raise("TypeError", TypeErrorMsg)
             ELSE IF PyIn(ERROR, error_data)
             THEN IF PyIn(MESSAGE, error_data)
                  THEN IF error.exc # ""
                       THEN Raise(error.exc, TypeErrorMsg)
                       ELSE IF message.exc # ""
                       THEN Raise(message.exc, TypeErrorMsg)
                       ELSE Return(PyStr(error.val) \o <<Lit(": ")>> \o PyStr(message.val))
                  ELSE IF error.exc # ""
                       THEN Raise(error.exc, TypeErrorMsg)
                       ELSE Return(PyStr(error.val))
             ELSE Return(PyStr(error_data))

\* raise exc(f"{prefix}{error_data}") where error_data is the parser's result;
\* an exception of the parser propagates instead
RaiseParsed(exc, prefix, resp) ==
    LET error_data == _parse_error_response(resp)
    IN  IF error_data.kind = "raise"
        THEN error_data
        ELSE Raise(exc, prefix \o error_data.val)

UnexpectedStatus(resp) ==
    <<Lit("Unexpected status "), Repr(JNum(resp.status_code)), Lit(": ")>>

\* the message of `except KeyError as e`: str(e) is the repr of the key
MissingField(key) ==
    <<Lit("API response missing required field: "), Repr(JStr(key))>>

\* IpResponse / DnsUpdateResponse: frozen dataclasses, fields not validated
IpResponse(ip) == [ip |-> ip]
DnsUpdateResponse(message, change_info) ==
    [message |-> message, change_info |-> change_info]

\* get_my_ip classifying a 403 as update_dns does
get_my_ip_forbidden(resp) ==
    IF resp.failed
    THEN Raise("NetworkError", <<Lit("Failed to connect to API: "), Lit("e")>>)
    ELSE IF resp.status_code = 403
    THEN RaiseParsed("AuthenticationError", <<Lit("Authentication failed: ")>>, resp)
    ELSE IF resp.status_code >= 500
    THEN RaiseParsed("ServerError", <<Lit("Server error: ")>>, resp)
    ELSE IF resp.status_code # 200
    THEN RaiseParsed("NetworkError", UnexpectedStatus(resp), resp)
    ELSE IF ~resp.json.ok
    THEN Raise("NetworkError", <<Lit("Invalid JSON response: "), Lit("e")>>)
    ELSE LET data == resp.json.val
             ip == GetItem(data, IP)
         IN  IF ip.exc = "KeyError"
             THEN Raise("ValidationError", MissingField(IP))
             ELSE IF ip.exc # ""
             THEN Raise(ip.exc, TypeErrorMsg)
             ELSE Return(IpResponse(ip.val))

\* the outcome of get_my_ip once the session has answered with resp
get_my_ip(resp) ==
    IF resp.failed
    THEN Raise("NetworkError", <<Lit("Failed to connect to API: "), Lit("e")>>)
    ELSE IF resp.status_code >= 500
    THEN RaiseParsed("ServerError", <<Lit("Server error: ")>>, resp)
    ELSE IF resp.status_code # 200
    THEN RaiseParsed("NetworkError", UnexpectedStatus(resp), resp)
    ELSE IF ~resp.json.ok
    THEN Raise("NetworkError", <<Lit("Invalid JSON response: "), Lit("e")>>)
    ELSE LET data == resp.json.val
             ip == GetItem(data, IP)
         IN  IF ip.exc = "KeyError"
             THEN Raise("ValidationError", MissingField(IP))
             ELSE IF ip.exc # ""
             THEN Raise(ip.exc, TypeErrorMsg)
             ELSE Return(IpResponse(ip.val))

\* the outcome of update_dns once the session has answered with resp
update_dns(resp) ==
    IF resp.failed
    THEN Raise("NetworkError", <<Lit("Failed to connect to API: "), Lit("e")>>)
    ELSE IF resp.status_code = 403
    THEN RaiseParsed("AuthenticationError", <<Lit("Authentication failed: ")>>, resp)
    ELSE IF resp.status_code = 400
    THEN RaiseParsed("ValidationError", <<Lit("Validation error: ")>>, resp)
    ELSE IF resp.status_code >= 500
    THEN RaiseParsed("ServerError", <<Lit("Server error: ")>>, resp)
    ELSE IF resp.status_code # 200
    THEN RaiseParsed("NetworkError", UnexpectedStatus(resp), resp)
    ELSE IF ~resp.json.ok
    THEN Raise("NetworkError", <<Lit("Invalid JSON response: "), Lit("e")>>)
    ELSE LET data == resp.json.val
             message == GetItem(data, MESSAGE)
             change_info == GetItem(data, CHANGE_INFO)
         IN  IF message.exc = "KeyError"
             THEN Raise("ValidationError", MissingField(MESSAGE))
             ELSE IF message.exc # ""
             THEN Raise(message.exc, TypeErrorMsg)
             ELSE IF change_info.exc = "KeyError"
             THEN Raise("ValidationError", MissingField(CHANGE_INFO))
             ELSE IF change_info.exc # ""
             THEN Raise(change_info.exc, TypeErrorMsg)
             ELSE Return(DnsUpdateResponse(message.val, change_info.val))

\* rstrip dropping one trailing ch only
rstrip_once(s, ch) ==
    IF Len(s) > 0 /\ s[Len(s)] = ch THEN SubSeq(s, 1, Len(s) - 1) ELSE s

\* str.rstrip(ch): drop every trailing ch
RECURSIVE rstrip(_, _)
rstrip(s, ch) ==
    IF Len(s) > 0 /\ s[Len(s)] = ch
    THEN rstrip(SubSeq(s, 1, Len(s) - 1), ch)
    ELSE s

\* JscomApiClient(base_url, auth_token, timeout): the constructor raises
\* ValueError or returns the client with a fresh session
JscomApiClient(base_url, auth_token, timeout) ==
    IF FloatLe(timeout, Num(0))
    THEN Raise("ValueError", <<Lit("timeout must be positive, got "), Repr(timeout)>>)
    ELSE Return([base_url |-> rstrip(base_url, "/"),
                 auth_token |-> auth_token,
                 timeout |-> timeout,
                 session |-> "open"])

\* the request get_my_ip hands to session.get
get_request(self) ==
    [method |-> "GET",
     url |-> <<Chars(self.base_url), Lit("/v1/ip/my")>>,
     headers |-> [h \in {} |-> Lit("")],
     json |-> None,
     timeout |-> self.timeout]

\* post_request with the header added whenever a token is not None
post_request_token_not_none(self, domain, ip) ==
    [method |-> "POST",
     url |-> <<Chars(self.base_url), Lit("/v1/dns/update")>>,
     headers |-> [h \in {"Content-Type"} \cup
                        (IF self.auth_token.some THEN {"x-auth-token"} ELSE {}) |->
                    IF h = "Content-Type"
                    THEN Lit("application/json")
                    ELSE Chars(self.auth_token.val)],
     json |-> Some([k \in {"domain", "ip"} |-> IF k = "domain" THEN domain ELSE ip]),
     timeout |-> self.timeout]

\* post_request with the two values of the payload exchanged
post_request_swapped(self, domain, ip) ==
    [method |-> "POST",
     url |-> <<Chars(self.base_url), Lit("/v1/dns/update")>>,
     headers |-> [h \in {"Content-Type"} \cup
                        (IF Truthy(self.auth_token) THEN {"x-auth-token"} ELSE {}) |->
                    IF h = "Content-Type"
                    THEN Lit("application/json")
                    ELSE Chars(self.auth_token.val)],
     json |-> Some([k \in {"domain", "ip"} |-> IF k = "domain" THEN ip ELSE domain]),
     timeout |-> self.timeout]

\* the request update_dns hands to session.post
post_request(self, domain, ip) ==
    [method |-> "POST",
     url |-> <<Chars(self.base_url), Lit("/v1/dns/update")>>,
     headers |-> [h \in {"Content-Type"} \cup
                        (IF Truthy(self.auth_token) THEN {"x-auth-token"} ELSE {}) |->
                    IF h = "Content-Type"
                    THEN Lit("application/json")
                    ELSE Chars(self.auth_token.val)],
     json |-> Some([k \in {"domain", "ip"} |-> IF k = "domain" THEN domain ELSE ip]),
     timeout |-> self.timeout]

(***************************************************************************)
(* config.py                                                               *)
(***************************************************************************)
\* Config(): the dataclass defaults
DefaultBaseUrl ==
    <<"h", "t", "t", "p", "s", ":", "/", "/", "a", "p", "i", ".",
      "j", "o", "h", "n", "s", "o", "s", "o", "k", "a", ".", "c", "o", "m">>
DefaultTimeout == 30

Config(base_url, auth_token, timeout) ==
    [base_url |-> base_url, auth_token |-> auth_token, timeout |-> timeout]

Digits == {"0", "1", "2", "3", "4", "5", "6", "7", "8", "9"}
DigitValue(c) ==
    CASE c = "0" -> 0 [] c = "1" -> 1 [] c = "2" -> 2 [] c = "3" -> 3 [] c = "4" -> 4
      [] c = "5" -> 5 [] c = "6" -> 6 [] c = "7" -> 7 [] c = "8" -> 8 [] c = "9" -> 9

RECURSIVE DecimalValue(_)
DecimalValue(s) ==
    IF Len(s) = 0 THEN 0
    ELSE 10 * DecimalValue(SubSeq(s, 1, Len(s) - 1)) + DigitValue(s[Len(s)])

\* float(s) on the texts of the model: an optional sign followed by decimal
\* digits or by "nan"; any other text raises ValueError
float(s) ==
    LET signed == Len(s) > 0 /\ s[1] \in {"+", "-"}
        body == IF signed THEN SubSeq(s, 2, Len(s)) ELSE s
        sign == IF signed /\ s[1] = "-" THEN -1 ELSE 1
    IN  IF body = <<"n", "a", "n">>
        THEN Return(NaN)
        ELSE IF Len(body) > 0 /\ \A i \in 1..Len(body) : body[i] \in Digits
        THEN Return(Num(sign * DecimalValue(body)))
        ELSE Raise("ValueError", <<Lit("could not convert string to float")>>)

\* load_config(base_url, auth_token, timeout) in the environment env, where
\* env[name] is os.getenv(name)
load_config(base_url, auth_token, timeout, env) ==
    LET resolved_base_url ==
            PyOr(PyOr(base_url, env["JSCOM_API_BASE_URL"]), Some(DefaultBaseUrl))
        resolved_auth_token == PyOr(auth_token, env["JSCOM_API_TOKEN"])
        env_timeout == env["JSCOM_API_TIMEOUT"]
        resolved_timeout ==
            IF timeout.some
            THEN timeout.val
            ELSE IF Truthy(env_timeout)
                 THEN IF float(env_timeout.val).kind = "return"
                      THEN float(env_timeout.val).val
                      ELSE Num(DefaultTimeout)
                 ELSE Num(DefaultTimeout)
    IN  Config(resolved_base_url.val, resolved_auth_token, resolved_timeout)

(***************************************************************************)
(* The inputs of the model.                                                *)
(***************************************************************************)
SeqsUpTo(S, n) == UNION {[1..k -> S] : k \in 0..n}
Optional(S) == {None} \cup {Some(x) : x \in S}

\* base URLs, with and without trailing slashes, the empty string included
Urls == SeqsUpTo({"a", "/"}, MaxUrlLen)
\* tokens, the empty string included
Tokens == {<<>>, <<"t">>, <<"u">>}
\* explicit timeouts (the commands pass none; a library caller passes a number)
Timeouts == {Num(-1), Num(0), Num(5)}
\* texts of JSCOM_API_TIMEOUT
TimeoutTexts ==
    {<<>>, <<"a", "b", "c">>, <<"0">>, <<"-", "5">>, <<"1", "0">>, <<"n", "a", "n">>}

Environs ==
    {[n \in {"JSCOM_API_BASE_URL", "JSCOM_API_TOKEN", "JSCOM_API_TIMEOUT"} |->
        CASE n = "JSCOM_API_BASE_URL" -> u
          [] n = "JSCOM_API_TOKEN" -> t
          [] n = "JSCOM_API_TIMEOUT" -> to] :
     u \in Optional(Urls), t \in Optional(Tokens), to \in Optional(TimeoutTexts)}

EmptyEnviron ==
    [n \in {"JSCOM_API_BASE_URL", "JSCOM_API_TOKEN", "JSCOM_API_TIMEOUT"} |-> None]

NoArgs == [base_url |-> None, auth_token |-> None, timeout |-> None]

\* the field values of the JSON objects of the model
FieldValue(k) ==
    CASE k = ERROR -> JStr(<<"F", "o", "r", "b", "i", "d", "d", "e", "n">>)
      [] k = MESSAGE -> JStr(<<"I", "n", "v", "a", "l", "i", "d">>)
      [] k = IP -> JStr(<<"1", ".", "2", ".", "3", ".", "4">>)
      [] k = CHANGE_INFO -> JObj([i \in {<<"I", "d">>} |-> JStr(<<"C", "1">>)])

JsonScalars == {JNull, JBool(TRUE), JNum(42)}
JsonStrings ==
    {JStr(<<>>), JStr(<<"o", "k">>), JStr(ERROR), JStr(ERROR \o <<" ">> \o MESSAGE)}
JsonArrays == {JArr(a) : a \in SeqsUpTo({JStr(ERROR), JStr(MESSAGE), JNum(1)}, MaxArrLen)}
JsonObjects ==
    {JObj([k \in K |-> FieldValue(k)]) : K \in SUBSET {ERROR, MESSAGE, IP, CHANGE_INFO}}
    \cup {JObj([k \in {IP} |-> v]) : v \in {JStr(<<>>), JNull}}
JsonValues == JsonScalars \cup JsonStrings \cup JsonArrays \cup JsonObjects

Statuses == {200, 201, 302, 400, 403, 404, 500, 503}

\* bodies that are not JSON (empty, or some text) and bodies that are
Responses ==
    {Response(st, <<>>, NoJson) : st \in Statuses}
    \cup {Response(st, <<Chars(<<"<", "h", "t", "m", "l", ">">>)>>, NoJson) : st \in Statuses}
    \cup {Response(st, <<Dumps(v)>>, Json(v)) : st \in Statuses, v \in JsonValues}

Transports == {TransportFailure} \cup Responses

Domains == {<<"d", ".">>}
Ips == {<<"1">>, <<"2">>}

\* the clients the calls are made on
Clients ==
    {JscomApiClient(u, t, Num(10)).val :
        u \in {<<"a">>, <<"a", "/">>}, t \in Optional({<<>>, <<"t">>})}

NoOutcome == [kind |-> "none", exc |-> ""]
NoParams == [domain |-> <<>>, ip |-> <<>>]
NoState == [base_url |-> None, token |-> None]
NoCmd == [name |-> ""]

\* no handler of the service has run
NoEvent == [handler |-> ""]
NoSvc ==
    /\ svc_environ = [k \in {"AUTH_TOKEN", "HOSTED_ZONE_ID"} |-> None]
    /\ event = NoEvent
    /\ route53 = <<>>
    /\ reply = NoOutcome

\* no command is running: the library is used directly
NoCli ==
    /\ state = NoState
    /\ cmd = NoCmd
    /\ pc = "library"
    /\ target_ip = JNull
    /\ pending = ""
    /\ acquired = 0
    /\ released = 0
    /\ inflight = None
    /\ sent = <<>>
    /\ stdout = <<>>
    /\ exit_code = None

(***************************************************************************)
(* The client: calls on a constructed client, each answered by the         *)
(* session with a transport failure or a response.                         *)
(***************************************************************************)
Init ==
    /\ environ = EmptyEnviron
    /\ args = NoArgs
    /\ config = None
    /\ client \in {Some(c) : c \in Clients}
    /\ call = ""
    /\ params = NoParams
    /\ request = None
    /\ response = None
    /\ outcome = NoOutcome
    /\ NoCli
    /\ NoSvc

GetMyIp ==
    \E resp \in Transports :
        /\ client.some
        /\ call' = "get_my_ip"
        /\ params' = NoParams
        /\ request' = Some(get_request(client.val))
        /\ response' = Some(resp)
        /\ outcome' = get_my_ip(resp)
        /\ UNCHANGED <<environ, args, config, client, cli_vars>>
        /\ UNCHANGED svc_vars

UpdateDns ==
    \E resp \in Transports, domain \in Domains, ip \in Ips :
        /\ client.some
        /\ call' = "update_dns"
        /\ params' = [domain |-> domain, ip |-> ip]
        /\ request' = Some(post_request(client.val, domain, ip))
        /\ response' = Some(resp)
        /\ outcome' = update_dns(resp)
        /\ UNCHANGED <<environ, args, config, client, cli_vars>>
        /\ UNCHANGED svc_vars

ParseErrorResponse ==
    \E resp \in Responses :
        /\ client.some
        /\ call' = "_parse_error_response"
        /\ params' = NoParams
        /\ request' = None
        /\ response' = Some(resp)
        /\ outcome' = _parse_error_response(resp)
        /\ UNCHANGED <<environ, args, config, client, cli_vars>>
        /\ UNCHANGED svc_vars

Next == GetMyIp \/ UpdateDns \/ ParseErrorResponse

Spec == Init /\ [][Next]_vars

(***************************************************************************)
(* The configuration: load_config in an environment, then the client       *)
(* constructed from the Config, as the commands do.                        *)
(***************************************************************************)
InitConfig ==
    /\ environ \in Environs
    /\ args = NoArgs
    /\ config = None
    /\ client = None
    /\ call = ""
    /\ params = NoParams
    /\ request = None
    /\ response = None
    /\ outcome = NoOutcome
    /\ NoCli
    /\ NoSvc

LoadConfig ==
    \E base_url \in Optional(Urls), auth_token \in Optional(Tokens),
       timeout \in Optional(Timeouts) :
        /\ call = ""
        /\ args' = [base_url |-> base_url, auth_token |-> auth_token, timeout |-> timeout]
        /\ config' = Some(load_config(base_url, auth_token, timeout, environ))
        /\ call' = "load_config"
        /\ outcome' = NoOutcome
        /\ UNCHANGED <<environ, client, params, request, response, cli_vars>>
        /\ UNCHANGED svc_vars

NewClient ==
    /\ call = "load_config"
    /\ call' = "JscomApiClient"
    /\ outcome' = JscomApiClient(config.val.base_url, config.val.auth_token,
                                 config.val.timeout)
    /\ client' = IF outcome'.kind = "return" THEN Some(outcome'.val) ELSE None
    /\ UNCHANGED <<environ, args, config, params, request, response, cli_vars>>
    /\ UNCHANGED svc_vars

NextConfig == LoadConfig \/ NewClient

SpecConfig == InitConfig /\ [][NextConfig]_vars

(***************************************************************************)
(* cli/main.py: one invocation of the `ip` or `dns update` command, from   *)
(* the `main` callback to the exit code.  The command blocks on each       *)
(* request, so issuing a request and receiving its answer are two steps.   *)
(***************************************************************************)
\* bool(v) of a Python value
PyTruthy(v) ==
    CASE v.t = "null" -> FALSE
      [] v.t = "bool" -> v.b
      [] v.t = "num" -> v.n # 0
      [] v.t = "str" -> Len(v.s) > 0
      [] v.t = "arr" -> Len(v.a) > 0
      [] v.t = "obj" -> DOMAIN v.o # {}

\* a str | None option as a Python value
PyVal(o) == IF o.some THEN JStr(o.val) ELSE JNull

\* the options of the two commands
IpCmd(json_output, quiet) ==
    [name |-> "ip", json_output |-> json_output, quiet |-> quiet]
DnsUpdateCmd(domain, ip_address, use_current_ip) ==
    [name |-> "dns update", domain |-> domain, ip_address |-> ip_address,
     use_current_ip |-> use_current_ip]

RECURSIVE Slashes(_)
Slashes(k) == IF k = 0 THEN <<>> ELSE <<"/">> \o Slashes(k - 1)

\* values of --base-url and --token, the empty string included
CliUrls == {<<>>} \cup {<<"a">> \o Slashes(k) : k \in 0..MaxSlashes}
CliTokens == {<<>>, <<"t">>}
\* values of --ip, the empty string included
CliIps == {<<>>, <<"9">>}

Commands ==
    {IpCmd(j, q) : j \in BOOLEAN, q \in BOOLEAN}
    \cup {DnsUpdateCmd(d, i, u) : d \in Domains, i \in Optional(CliIps), u \in BOOLEAN}

\* the environments the commands run in
CliEnvirons ==
    {e \in Environs :
        /\ e["JSCOM_API_BASE_URL"] \in {None, Some(<<"a", "/">>)}
        /\ e["JSCOM_API_TOKEN"] \in {None, Some(<<"u">>)}
        /\ e["JSCOM_API_TIMEOUT"] \in {None, Some(<<"0">>), Some(<<"1", "0">>)}}

\* the answers of the session to a command's request
CliBodies ==
    {JNull,
     JObj([k \in {} |-> JNull]),
     JObj([k \in {IP} |-> FieldValue(k)]),
     JObj([k \in {IP} |-> JStr(<<>>)]),
     JObj([k \in {IP} |-> JNull]),
     JObj([k \in {ERROR, MESSAGE} |-> FieldValue(k)]),
     JObj([k \in {MESSAGE, CHANGE_INFO} |-> FieldValue(k)]),
     JObj([k \in {MESSAGE, CHANGE_INFO} |->
            IF k = MESSAGE THEN FieldValue(k) ELSE JObj([i \in {} |-> JNull])]),
     JObj([k \in {MESSAGE, CHANGE_INFO} |->
            IF k = MESSAGE THEN FieldValue(k) ELSE JStr(<<"x">>)])}
CliStatuses == {200, 400, 403, 404, 500}
\* a body that is no JSON but text with a closing markup tag in it
MarkupText == <<Chars(<<"[", "/", "]">>)>>
CliTransports ==
    {TransportFailure}
    \cup {Response(st, <<>>, NoJson) : st \in CliStatuses}
    \cup {Response(st, MarkupText, NoJson) : st \in CliStatuses}
    \cup {Response(st, <<Dumps(v)>>, Json(v)) : st \in CliStatuses, v \in CliBodies}

\* a line on console: what was printed and the value in it
Printed(what, v) == [what |-> what, val |-> v]

\* the exit code the except clauses of a command give to the exception
\* exc propagating out of its body ("" when the body returned)
ExitCode(name, exc) ==
    IF exc = "" THEN 0
    ELSE IF name = "dns update" /\ exc = "AuthenticationError" THEN 2
    ELSE 1

InitCli ==
    /\ environ \in CliEnvirons
    /\ args = NoArgs
    /\ config = None
    /\ client = None
    /\ call = ""
    /\ params = NoParams
    /\ request = None
    /\ response = None
    /\ outcome = NoOutcome
    /\ state = NoState
    /\ cmd = NoCmd
    /\ pc = "idle"
    /\ target_ip = JNull
    /\ pending = ""
    /\ acquired = 0
    /\ released = 0
    /\ inflight = None
    /\ sent = <<>>
    /\ stdout = <<>>
    /\ exit_code = None
    /\ NoSvc

\* the command line of an invocation: a command with its options and the
\* global options --base-url and --token
Invocation(command, base_url, token) ==
    command @@ [base_url |-> base_url, token |-> token]

\* Main storing a global option only when its flag is given
Main_keep_unset ==
    \E base_url \in Optional(CliUrls), token \in Optional(CliTokens), command \in Commands :
        /\ pc = "idle"
        /\ state' = [base_url |-> IF base_url.some THEN base_url ELSE state.base_url,
                     token |-> IF token.some THEN token ELSE state.token]
        /\ cmd' = Invocation(command, base_url, token)
        /\ pc' = IF command.name = "dns update" THEN "validate" ELSE "resolve"
        /\ UNCHANGED <<lib_vars, target_ip, pending, acquired, released, inflight, sent,
                       stdout, exit_code>>
        /\ UNCHANGED svc_vars

\* main(): the callback stores the global options, given or not, then the
\* command runs
Main ==
    \E base_url \in Optional(CliUrls), token \in Optional(CliTokens), command \in Commands :
        /\ pc = "idle"
        /\ state' = [base_url |-> base_url, token |-> token]
        /\ cmd' = Invocation(command, base_url, token)
        /\ pc' = IF command.name = "dns update" THEN "validate" ELSE "resolve"
        /\ UNCHANGED <<lib_vars, target_ip, pending, acquired, released, inflight, sent,
                       stdout, exit_code>>
        /\ UNCHANGED svc_vars

\* dns_update: the two checks of the options, each raising typer.Exit(code=1)
Validate ==
    /\ pc = "validate"
    /\ IF \/ Truthy(cmd.ip_address) /\ cmd.use_current_ip
          \/ ~Truthy(cmd.ip_address) /\ ~cmd.use_current_ip
       THEN exit_code' = Some(1) /\ pc' = "done"
       ELSE exit_code' = exit_code /\ pc' = "resolve"
    /\ UNCHANGED <<lib_vars, state, cmd, target_ip, pending, acquired, released, inflight,
                   sent, stdout>>
    /\ UNCHANGED svc_vars

\* config = load_config(base_url=state.base_url, auth_token=state.token)
Resolve ==
    /\ pc = "resolve"
    /\ args' = [base_url |-> state.base_url, auth_token |-> state.token, timeout |-> None]
    /\ config' = Some(load_config(state.base_url, state.token, None, environ))
    /\ call' = "load_config"
    /\ pc' = "construct"
    /\ UNCHANGED <<environ, client, params, request, response, outcome, state, cmd,
                   target_ip, pending, acquired, released, inflight, sent, stdout, exit_code>>
    /\ UNCHANGED svc_vars

\* with JscomApiClient(...) as client: the constructor creates the session,
\* or raises before it does
Construct ==
    /\ pc = "construct"
    /\ call' = "JscomApiClient"
    /\ outcome' = JscomApiClient(config.val.base_url, config.val.auth_token,
                                 config.val.timeout)
    /\ IF outcome'.kind = "return"
       THEN /\ client' = Some(outcome'.val)
            /\ acquired' = acquired + 1
            /\ pending' = pending
            /\ pc' = "enter"
       ELSE /\ client' = client
            /\ acquired' = acquired
            /\ pending' = outcome'.exc
            /\ pc' = "handle"
    /\ UNCHANGED <<environ, args, config, params, request, response, state, cmd, target_ip,
                   released, inflight, sent, stdout, exit_code>>
    /\ UNCHANGED svc_vars

\* Enter fetching the current IP whether or not --use-current-ip is given
Enter_always_fetch ==
    /\ pc = "enter"
    /\ IF cmd.name = "ip"
       THEN /\ target_ip' = target_ip
            /\ stdout' = stdout
            /\ pending' = pending
            /\ pc' = "get"
       ELSE /\ target_ip' = PyVal(cmd.ip_address)
            /\ stdout' = Append(stdout, Printed("Fetching current public IP...", JNull))
            /\ pending' = pending
            /\ pc' = "get"
    /\ UNCHANGED <<lib_vars, state, cmd, acquired, released, inflight, sent, exit_code>>
    /\ UNCHANGED svc_vars

\* the body of the with block up to its first request
Enter ==
    /\ pc = "enter"
    /\ IF cmd.name = "ip"
       THEN /\ target_ip' = target_ip
            /\ stdout' = stdout
            /\ pending' = pending
            /\ pc' = "get"
       ELSE /\ target_ip' = PyVal(cmd.ip_address)
            /\ IF cmd.use_current_ip
               THEN /\ stdout' = Append(stdout, Printed("Fetching current public IP...", JNull))
                    /\ pending' = pending
                    /\ pc' = "get"
               ELSE /\ stdout' = stdout
                    /\ IF ~PyTruthy(target_ip')
                       THEN pending' = "Exit" /\ pc' = "release"
                       ELSE pending' = pending /\ pc' = "post"
    /\ UNCHANGED <<lib_vars, state, cmd, acquired, released, inflight, sent, exit_code>>
    /\ UNCHANGED svc_vars

\* IssueGet calling session.get again after a failed get_my_ip
IssueGet_retry ==
    /\ \/ pc = "get"
       \/ pc = "release" /\ call = "get_my_ip" /\ outcome.kind = "raise" /\ Len(sent) < 2
    /\ call' = "get_my_ip"
    /\ params' = NoParams
    /\ request' = Some(get_request(client.val))
    /\ inflight' = request'
    /\ sent' = Append(sent, request'.val)
    /\ pc' = "await_get"
    /\ UNCHANGED <<environ, args, config, client, response, outcome, state, cmd, target_ip,
                   pending, acquired, released, stdout, exit_code>>
    /\ UNCHANGED svc_vars

\* client.get_my_ip(): session.get is called
IssueGet ==
    /\ pc = "get"
    /\ call' = "get_my_ip"
    /\ params' = NoParams
    /\ request' = Some(get_request(client.val))
    /\ inflight' = request'
    /\ sent' = Append(sent, request'.val)
    /\ pc' = "await_get"
    /\ UNCHANGED <<environ, args, config, client, response, outcome, state, cmd, target_ip,
                   pending, acquired, released, stdout, exit_code>>
    /\ UNCHANGED svc_vars

\* IpOutput with --json tested before --quiet
IpOutput_json_first(command, result) ==
    IF command.json_output THEN Printed("json", result.ip)
    ELSE IF command.quiet THEN Printed("ip", result.ip)
    ELSE Printed("table", result.ip)

\* what the ip command prints for a result
IpOutput(command, result) ==
    IF command.quiet THEN Printed("ip", result.ip)
    ELSE IF command.json_output THEN Printed("json", result.ip)
    ELSE Printed("table", result.ip)

\* ReceiveGet going on to the POST whatever ip was fetched
ReceiveGet_unchecked ==
    \E resp \in CliTransports :
        /\ pc = "await_get"
        /\ response' = Some(resp)
        /\ inflight' = None
        /\ outcome' = get_my_ip(resp)
        /\ IF outcome'.kind = "raise"
           THEN /\ pending' = outcome'.exc
                /\ pc' = "release"
                /\ UNCHANGED <<target_ip, stdout>>
           ELSE IF cmd.name = "ip"
           THEN /\ stdout' = Append(stdout, IpOutput(cmd, outcome'.val))
                /\ pc' = "release"
                /\ UNCHANGED <<target_ip, pending>>
           ELSE /\ target_ip' = outcome'.val.ip
                /\ stdout' = Append(stdout, Printed("Current IP:", target_ip'))
                /\ pending' = pending
                /\ pc' = "post"
        /\ UNCHANGED <<environ, args, config, client, call, params, request, state, cmd,
                       acquired, released, sent, exit_code>>
        /\ UNCHANGED svc_vars

\* session.get answers; get_my_ip returns or raises and the body goes on to
\* its next request or to its end
ReceiveGet ==
    \E resp \in CliTransports :
        /\ pc = "await_get"
        /\ response' = Some(resp)
        /\ inflight' = None
        /\ outcome' = get_my_ip(resp)
        /\ IF outcome'.kind = "raise"
           THEN /\ pending' = outcome'.exc
                /\ pc' = "release"
                /\ UNCHANGED <<target_ip, stdout>>
           ELSE IF cmd.name = "ip"
           THEN /\ stdout' = Append(stdout, IpOutput(cmd, outcome'.val))
                /\ pc' = "release"
                /\ UNCHANGED <<target_ip, pending>>
           ELSE /\ target_ip' = outcome'.val.ip
                /\ stdout' = Append(stdout, Printed("Current IP:", target_ip'))
                /\ IF ~PyTruthy(target_ip')
                   THEN pending' = "Exit" /\ pc' = "release"
                   ELSE pending' = pending /\ pc' = "post"
        /\ UNCHANGED <<environ, args, config, client, call, params, request, state, cmd,
                       acquired, released, sent, exit_code>>
        /\ UNCHANGED svc_vars

\* client.update_dns(domain=domain, ip=target_ip): session.post is called
IssuePost ==
    /\ pc = "post"
    /\ stdout' = Append(stdout, Printed("Updating DNS record for", JStr(cmd.domain)))
    /\ call' = "update_dns"
    /\ params' = [domain |-> cmd.domain, ip |-> target_ip]
    /\ request' = Some(post_request(client.val, cmd.domain, target_ip))
    /\ inflight' = request'
    /\ sent' = Append(sent, request'.val)
    /\ pc' = "await_post"
    /\ UNCHANGED <<environ, args, config, client, response, outcome, state, cmd, target_ip,
                   pending, acquired, released, exit_code>>
    /\ UNCHANGED svc_vars

\* session.post answers; update_dns returns or raises; a result is printed,
\* its change_info through .items() when it is truthy
ReceivePost ==
    \E resp \in CliTransports :
        /\ pc = "await_post"
        /\ response' = Some(resp)
        /\ inflight' = None
        /\ outcome' = update_dns(resp)
        /\ IF outcome'.kind = "raise"
           THEN /\ pending' = outcome'.exc
                /\ stdout' = stdout
           ELSE LET result == outcome'.val
                    success == Append(stdout, Printed("Success!", result.message))
                IN  IF ~PyTruthy(result.change_info)
                    THEN pending' = pending /\ stdout' = success
                    ELSE IF result.change_info.t = "obj"
                    THEN /\ pending' = pending
                         /\ stdout' = Append(success, Printed("Change Info:", result.change_info))
                    ELSE /\ pending' = "AttributeError"
                         /\ stdout' = Append(success, Printed("Change Info:", JNull))
        /\ pc' = "release"
        /\ UNCHANGED <<environ, args, config, client, call, params, request, state, cmd,
                       target_ip, acquired, released, sent, exit_code>>
        /\ UNCHANGED svc_vars

\* Release closing the session only when the body ended normally
Release_on_success_only ==
    /\ pc = "release"
    /\ client' = IF pending = "" THEN Some([client.val EXCEPT !.session = "closed"]) ELSE client
    /\ released' = IF pending = "" THEN released + 1 ELSE released
    /\ pc' = "handle"
    /\ UNCHANGED <<environ, args, config, call, params, request, response, outcome, state,
                   cmd, target_ip, pending, acquired, inflight, sent, stdout, exit_code>>
    /\ UNCHANGED svc_vars

\* __exit__: the with block is left, by its end or by an exception, and
\* close() closes the session
Release ==
    /\ pc = "release"
    /\ client' = Some([client.val EXCEPT !.session = "closed"])
    /\ released' = released + 1
    /\ pc' = "handle"
    /\ UNCHANGED <<environ, args, config, call, params, request, response, outcome, state,
                   cmd, target_ip, pending, acquired, inflight, sent, stdout, exit_code>>
    /\ UNCHANGED svc_vars

\* console markup is on (Console() at main.py:28-29): the text closes a tag,
\* "[/...]" not escaped, where none was opened, and print raises MarkupError
ClosesNothing(s) ==
    \E i \in 1..Len(s), j \in 1..Len(s) :
        /\ i < j
        /\ s[i] = "[" /\ s[i + 1] = "/" /\ s[j] = "]"
        /\ \A k \in 1..(j - 1) : k # i => s[k] # "["
        /\ i = 1 \/ s[i - 1] # "\\"

\* err_console.print(f"[red]...[/red] {e}") raises: the tags of the format are
\* closed before {e}, and the data strings of the message are read as markup
MarkupRaises(msg) ==
    \E p \in 1..Len(msg) : msg[p].k = "chars" /\ ClosesNothing(msg[p].chars)

\* the except clauses of the command, or its normal return.  A clause prints
\* the message of the exception and then raises typer.Exit; an exception of
\* the print leaves the command uncaught (pending = "MarkupError" at the end)
\* and the interpreter ends with status 1.
Handle ==
    /\ pc = "handle"
    /\ LET e == IF outcome.kind = "raise" THEN outcome.msg ELSE <<>>
       IN  IF pending # "" /\ MarkupRaises(e)
           THEN pending' = "MarkupError" /\ exit_code' = Some(1)
           ELSE pending' = pending /\ exit_code' = Some(ExitCode(cmd.name, pending))
    /\ pc' = "done"
    /\ UNCHANGED <<lib_vars, state, cmd, target_ip, acquired, released, inflight,
                   sent, stdout>>
    /\ UNCHANGED svc_vars

\* the invocation is over and the process goes on: the locals of the command
\* are gone, the module-level state and the environment stay (args keeps the
\* arguments of the last load_config call until the next one)
Finish ==
    /\ pc = "done"
    /\ pc' = "idle"
    /\ config' = None
    /\ client' = None
    /\ call' = ""
    /\ params' = NoParams
    /\ request' = None
    /\ response' = None
    /\ outcome' = NoOutcome
    /\ cmd' = NoCmd
    /\ target_ip' = JNull
    /\ pending' = ""
    /\ acquired' = 0
    /\ released' = 0
    /\ inflight' = None
    /\ sent' = <<>>
    /\ stdout' = <<>>
    /\ exit_code' = None
    /\ UNCHANGED <<environ, args, state>>
    /\ UNCHANGED svc_vars

\* between two invocations the environment of the process is changed
Setenv ==
    \E e \in CliEnvirons :
        /\ pc = "idle"
        /\ e # environ
        /\ environ' = e
        /\ UNCHANGED <<args, config, client, call, params, request, response, outcome,
                       cli_vars>>
        /\ UNCHANGED svc_vars

NextCli ==
    \/ Main \/ Validate \/ Resolve \/ Construct \/ Enter
    \/ IssueGet \/ ReceiveGet \/ IssuePost \/ ReceivePost
    \/ Release \/ Handle \/ Finish \/ Setenv

SpecCli == InitCli /\ [][NextCli]_vars

\* the command runs to its end: every step is taken when it can be, and the
\* session answers every request (by its timeout at the latest)
FairSpecCli == SpecCli /\ WF_vars(NextCli)

(***************************************************************************)
(* lambdas: the two handlers behind the endpoints, each invoked with an    *)
(* event of the API gateway, and the client reading what they return.      *)
(***************************************************************************)
\* a value json.dumps cannot write by itself (a datetime of the Route 53
\* response): default=str writes its str()
PyDate(s) == [t |-> "datetime", d |-> s]

\* json.loads(json.dumps(v, default=str)): what the reader of the body gets
RECURSIVE Jsonable(_)
Jsonable(v) ==
    CASE v.t = "datetime" -> JStr(v.d)
      [] v.t = "obj" -> JObj([k \in DOMAIN v.o |-> Jsonable(v.o[k])])
      [] v.t = "arr" -> JArr([i \in DOMAIN v.a |-> Jsonable(v.a[i])])
      [] OTHER -> v

\* d.get(key) of a Python value: None for a missing key, AttributeError for
\* a value that is no dict
DictGet(d, key) ==
    IF d.t = "obj"
    THEN [exc |-> "", val |-> IF key \in DOMAIN d.o THEN d.o[key] ELSE JNull]
    ELSE [exc |-> "AttributeError", val |-> JNull]

AttributeErrorMsg == <<Lit("object has no attribute 'get'")>>

\* the event of a handler: "headers" and "body" are absent, null or a value;
\* a body is a text and what json.loads makes of it
Event(handler, headers, body, requestContext) ==
    [handler |-> handler, headers |-> headers, body |-> body,
     requestContext |-> requestContext]
Body(text, json) == [text |-> text, json |-> json]

\* what a handler returns: {"statusCode": ..., "body": json.dumps(body, ...)}
Reply(statusCode, body) == Return([statusCode |-> statusCode, body |-> body])

ErrorBody(error) == JObj([k \in {ERROR} |-> JStr(error)])

\* route53.change_resource_record_sets(...): the call and whether it succeeded
Upsert(hosted_zone_id, domain, new_ip, ok) ==
    [HostedZoneId |-> hosted_zone_id, Name |-> domain, Value |-> new_ip, ok |-> ok]

\* the response of Route 53 to an accepted change
ChangeResponse ==
    JObj([k \in {<<"C", "h", "a", "n", "g", "e", "I", "n", "f", "o">>} |->
            JObj([f \in {<<"I", "d">>, <<"S", "u", "b", "m", "i", "t", "t", "e", "d", "A", "t">>} |->
                    IF f = <<"I", "d">> THEN JStr(<<"C", "1">>)
                    ELSE PyDate(<<"2", "0", "2", "5">>)])])

\* UpdatedBody leaving change_info out
UpdatedBody_without_change_info(change_info) ==
    JObj([k \in {MESSAGE} |-> JStr(<<"D", "N", "S", " ", "r", "e", "c", "o", "r", "d", " ", "u", "p", "d", "a", "t", "e", "d">>)])

\* the body of the 200 answer: {"message": ..., "change_info": <response>}
UpdatedBody(change_info) ==
    JObj([k \in {MESSAGE, CHANGE_INFO} |->
            IF k = MESSAGE THEN JStr(<<"D", "N", "S", " ", "r", "e", "c", "o", "r", "d", " ", "u", "p", "d", "a", "t", "e", "d">>) ELSE change_info])

X_AUTH_TOKEN == <<"x", "-", "a", "u", "t", "h", "-", "t", "o", "k", "e", "n">>
DOMAIN_KEY == <<"d", "o", "m", "a", "i", "n">>
REQUEST_CONTEXT_HTTP == <<"h", "t", "t", "p">>
SOURCE_IP == <<"s", "o", "u", "r", "c", "e", "I", "p">>

\* update_dns_lambda.lambda_handler(event, context) in the environment env,
\* where ok says whether Route 53 accepts the change: what it returns or
\* raises, and the calls it made to Route 53
update_dns_lambda(env, ev, ok) ==
    LET expected_token == PyVal(env["AUTH_TOKEN"])
        hosted_zone_id == env["HOSTED_ZONE_ID"]
        headers == IF ev.headers.some THEN ev.headers.val ELSE JObj([k \in {} |-> JNull])
        auth_token == DictGet(headers, X_AUTH_TOKEN)
        body == ev.body
        given == body.some /\ NonEmptyText(body.val.text)
        data == IF given THEN body.val.json.val ELSE JObj([k \in {} |-> JNull])
        domain == DictGet(data, DOMAIN_KEY)
        new_ip == DictGet(data, IP)
    IN  IF auth_token.exc # ""
        THEN [reply |-> Raise(auth_token.exc, AttributeErrorMsg), calls |-> <<>>]
        ELSE IF auth_token.val # expected_token
        THEN [reply |-> Reply(403, ErrorBody(<<"U", "n", "a", "u", "t", "h", "o", "r", "i", "z", "e", "d">>)), calls |-> <<>>]
        ELSE IF given /\ ~body.val.json.ok
        THEN [reply |-> Reply(400, ErrorBody(<<"I", "n", "v", "a", "l", "i", "d", " ", "J", "S", "O", "N", " ", "p", "a", "y", "l", "o", "a", "d">>)), calls |-> <<>>]
        ELSE IF domain.exc # ""
        THEN [reply |-> Raise(domain.exc, AttributeErrorMsg), calls |-> <<>>]
        ELSE IF ~PyTruthy(domain.val) \/ ~PyTruthy(new_ip.val)
        THEN [reply |-> Reply(400, ErrorBody(<<"M", "i", "s", "s", "i", "n", "g", " ", "'", "d", "o", "m", "a", "i", "n", "'", " ", "o", "r", " ", "'", "i", "p", "'", " ", "p", "a", "r", "a", "m", "e", "t", "e", "r">>)), calls |-> <<>>]
        ELSE IF ~Truthy(hosted_zone_id)
        THEN [reply |-> Reply(500, ErrorBody(<<"H", "o", "s", "t", "e", "d", " ", "z", "o", "n", "e", " ", "I", "D", " ", "n", "o", "t", " ", "c", "o", "n", "f", "i", "g", "u", "r", "e", "d">>)), calls |-> <<>>]
        ELSE LET change == Upsert(hosted_zone_id.val, domain.val, new_ip.val, ok)
             IN  IF ~ok
                 THEN [reply |-> Reply(500, JObj([k \in {ERROR, MESSAGE} |->
                                    IF k = ERROR
                                    THEN JStr(<<"F", "a", "i", "l", "e", "d", " ", "t", "o", " ", "u", "p", "d", "a", "t", "e", " ", "D", "N", "S", " ", "r", "e", "c", "o", "r", "d">>)
                                    ELSE JStr(<<"e">>)])),
                       calls |-> <<change>>]
                 ELSE [reply |-> Reply(200, UpdatedBody(ChangeResponse)), calls |-> <<change>>]

\* d.get(key, default)
DictGetDefault(d, key, default) ==
    IF d.t = "obj"
    THEN [exc |-> "", val |-> IF key \in DOMAIN d.o THEN d.o[key] ELSE default]
    ELSE [exc |-> "AttributeError", val |-> JNull]

\* my_ip_lambda.lambda_handler(event, context)
my_ip_lambda(ev) ==
    LET empty == JObj([k \in {} |-> JNull])
        context == IF ev.requestContext.some THEN ev.requestContext.val ELSE empty
        http == DictGetDefault(context, REQUEST_CONTEXT_HTTP, empty)
        ip_address == DictGetDefault(http.val, SOURCE_IP, JStr(<<"I", "P", " ", "n", "o", "t", " ", "f", "o", "u", "n", "d">>))
    IN  IF http.exc # ""
        THEN Raise(http.exc, AttributeErrorMsg)
        ELSE IF ip_address.exc # ""
        THEN Raise(ip_address.exc, AttributeErrorMsg)
        ELSE Reply(200, JObj([k \in {IP} |-> ip_address.val]))

\* the gateway hands the handler's statusCode and body to the client, which
\* reads the body with response.json()
HttpResponse(rep) ==
    Response(rep.val.statusCode, <<Dumps(rep.val.body)>>, Json(Jsonable(rep.val.body)))

\* the environments of the service: each variable unset, empty or set
SvcEnvirons ==
    [{"AUTH_TOKEN", "HOSTED_ZONE_ID"} -> Optional({<<>>, <<"s">>})]

\* the headers of an event: absent, null, or a dict with or without the token
EventHeaders ==
    {None, Some(JNull), Some(JObj([k \in {} |-> JNull]))}
    \cup {Some(JObj([k \in {X_AUTH_TOKEN} |-> JStr(t)])) : t \in {<<>>, <<"s">>, <<"t">>}}

\* the payloads of a request: the client's {"domain": ..., "ip": ...} with
\* each value present, empty or left out, and JSON that is no object
Payloads ==
    {JObj([k \in K |-> IF k \in E THEN JStr(<<>>) ELSE JStr(<<"v">>)]) :
        K \in SUBSET {DOMAIN_KEY, IP}, E \in SUBSET {DOMAIN_KEY, IP}}
    \cup {JNull, JNum(42), JArr(<<JStr(DOMAIN_KEY), JStr(IP)>>)}

\* the body of an event: absent, empty, text that is no JSON, or a payload
EventBodies ==
    {None, Some(Body(<<>>, NoJson)), Some(Body(<<Chars(<<"<", ">">>)>>, NoJson))}
    \cup {Some(Body(<<Dumps(v)>>, Json(v))) : v \in Payloads}

UpdateEvents ==
    {Event("update_dns_lambda", h, b, None) : h \in EventHeaders, b \in EventBodies}

\* the requestContext of an event: absent, null, without "http", with a null
\* "http", without or with "sourceIp"
RequestContexts ==
    {None, Some(JNull), Some(JObj([k \in {} |-> JNull])),
     Some(JObj([k \in {REQUEST_CONTEXT_HTTP} |-> JNull])),
     Some(JObj([k \in {REQUEST_CONTEXT_HTTP} |-> JObj([f \in {} |-> JNull])])),
     Some(JObj([k \in {REQUEST_CONTEXT_HTTP} |->
                    JObj([f \in {SOURCE_IP} |-> FieldValue(IP)])]))}

MyIpEvents == {Event("my_ip_lambda", None, None, c) : c \in RequestContexts}

InitService ==
    /\ environ = EmptyEnviron
    /\ args = NoArgs
    /\ config = None
    /\ client = None
    /\ call = ""
    /\ params = NoParams
    /\ request = None
    /\ response = None
    /\ outcome = NoOutcome
    /\ NoCli
    /\ svc_environ \in SvcEnvirons
    /\ event = NoEvent
    /\ route53 = <<>>
    /\ reply = NoOutcome

\* the gateway invokes the handler of POST /v1/dns/update
UpdateDnsLambda ==
    \E ev \in UpdateEvents, ok \in BOOLEAN :
        LET r == update_dns_lambda(svc_environ, ev, ok)
        IN  /\ event' = ev
            /\ reply' = r.reply
            /\ route53' = r.calls
            /\ call' = "update_dns_lambda"
            /\ response' = None
            /\ outcome' = NoOutcome
            /\ UNCHANGED <<environ, args, config, client, params, request, cli_vars,
                           svc_environ>>

\* the gateway invokes the handler of GET /v1/ip/my
MyIpLambda ==
    \E ev \in MyIpEvents :
        /\ event' = ev
        /\ reply' = my_ip_lambda(ev)
        /\ route53' = <<>>
        /\ call' = "my_ip_lambda"
        /\ response' = None
        /\ outcome' = NoOutcome
        /\ UNCHANGED <<environ, args, config, client, params, request, cli_vars,
                       svc_environ>>

\* update_dns of the client reads the answer of the DNS-update service
ClientUpdateDns ==
    /\ call = "update_dns_lambda"
    /\ reply.kind = "return"
    /\ response' = Some(HttpResponse(reply))
    /\ outcome' = update_dns(response'.val)
    /\ call' = "update_dns"
    /\ UNCHANGED <<environ, args, config, client, params, request, cli_vars, svc_vars>>

\* get_my_ip of the client reads the answer of the my-IP service
ClientGetMyIp ==
    /\ call = "my_ip_lambda"
    /\ reply.kind = "return"
    /\ response' = Some(HttpResponse(reply))
    /\ outcome' = get_my_ip(response'.val)
    /\ call' = "get_my_ip"
    /\ UNCHANGED <<environ, args, config, client, params, request, cli_vars, svc_vars>>

NextService == UpdateDnsLambda \/ MyIpLambda \/ ClientUpdateDns \/ ClientGetMyIp

SpecService == InitService /\ [][NextService]_vars

(***************************************************************************)
(* Properties of the client (checked under Spec).                          *)
(***************************************************************************)
ApiErrors == {"AuthenticationError", "ValidationError", "ServerError", "NetworkError"}

\* the decoded body is a JSON object that has the key
HasKey(v, key) == v.t = "obj" /\ key \in DOMAIN v.o

Raised(exc) == outcome.kind = "raise" /\ outcome.exc = exc

\* C1: update_dns classifies by the status code alone, in this order: a
\* transport failure is a Network error; else 403 is an Authentication error;
\* else 400 a Validation error; else >= 500 a Server error; else any status
\* other than 200 a Network error; only 200 goes on to the body.
C1_StatusLadder ==
    (call = "update_dns") =>
        LET r == response.val
        IN  CASE r.failed -> Raised("NetworkError")
              [] ~r.failed /\ r.status_code = 403 -> Raised("AuthenticationError")
              [] ~r.failed /\ r.status_code = 400 -> Raised("ValidationError")
              [] ~r.failed /\ r.status_code >= 500 -> Raised("ServerError")
              [] ~r.failed /\ r.status_code \notin {200, 400, 403} /\ r.status_code < 500 ->
                    Raised("NetworkError")
              [] OTHER -> TRUE

\* C2: a 403 answer to update_dns raises an Authentication error whatever
\* the body is.
C2_ForbiddenIsAuthentication ==
    (call = "update_dns" /\ ~response.val.failed /\ response.val.status_code = 403) =>
        Raised("AuthenticationError")

\* C3: every call of get_my_ip or update_dns ends in a typed result or in one
\* error of {Authentication, Validation, Server, Network}; no other exception
\* escapes the client.
C3_ClosedErrorSet ==
    (call \in {"get_my_ip", "update_dns"}) =>
        \/ outcome.kind = "return"
        \/ outcome.kind = "raise" /\ outcome.exc \in ApiErrors

\* C4: get_my_ip: transport failure -> Network; status >= 500 -> Server; any
\* other status but 200 -> Network; 200 with a body that is not JSON ->
\* Network; 200 with JSON lacking the key ip -> Validation; otherwise the
\* IpResult whose ip is body["ip"].
C4_GetMyIpOrder ==
    (call = "get_my_ip") =>
        LET r == response.val
        IN  IF r.failed THEN Raised("NetworkError")
            ELSE IF r.status_code >= 500 THEN Raised("ServerError")
            ELSE IF r.status_code # 200 THEN Raised("NetworkError")
            ELSE IF ~r.json.ok THEN Raised("NetworkError")
            ELSE IF ~HasKey(r.json.val, IP) THEN Raised("ValidationError")
            ELSE outcome.kind = "return" /\ outcome.val = IpResponse(r.json.val.o[IP])

\* C5: update_dns on status 200: a body that is not JSON -> Network; JSON
\* missing message or change_info -> Validation; otherwise the
\* DnsUpdateResult with the body's message and change_info.
C5_UpdateDnsBody ==
    (call = "update_dns" /\ ~response.val.failed /\ response.val.status_code = 200) =>
        LET r == response.val
        IN  IF ~r.json.ok THEN Raised("NetworkError")
            ELSE IF ~HasKey(r.json.val, MESSAGE) \/ ~HasKey(r.json.val, CHANGE_INFO)
            THEN Raised("ValidationError")
            ELSE /\ outcome.kind = "return"
                 /\ outcome.val = DnsUpdateResponse(r.json.val.o[MESSAGE],
                                                    r.json.val.o[CHANGE_INFO])

\* C6: the error-body parser never raises: for every response it returns a
\* string.
C6_ParserNeverRaises ==
    (call = "_parse_error_response") => outcome.kind = "return"

\* C7: the parser's result is "{error}: {message}" for JSON with both keys,
\* str(error) for JSON with the key error only, the stringified body for JSON
\* without the key error, and for a body that does not parse the raw text,
\* or "HTTP {status}" when the text is empty.
C7_ParserResult ==
    (call = "_parse_error_response") =>
        LET r == response.val
            body == r.json.val
            expected ==
                IF r.json.ok
                THEN IF HasKey(body, ERROR)
                     THEN IF HasKey(body, MESSAGE)
                          THEN PyStr(body.o[ERROR]) \o <<Lit(": ")>> \o PyStr(body.o[MESSAGE])
                          ELSE PyStr(body.o[ERROR])
                     ELSE PyStr(body)
                ELSE IF NonEmptyText(r.text)
                     THEN r.text
                     ELSE <<Lit("HTTP "), Repr(JNum(r.status_code))>>
        IN  outcome.kind = "return" /\ outcome.val = expected

(***************************************************************************)
(* Properties of the configuration (checked under SpecConfig).             *)
(***************************************************************************)
\* C8: for each of base_url, auth_token and timeout: a supplied argument
\* (the empty string and 0 included) is the resolved value; otherwise a set
\* environment variable is; otherwise the default is.
C8_Precedence ==
    (call = "load_config") =>
        LET c == config.val
            env_timeout == environ["JSCOM_API_TIMEOUT"]
        IN  /\ c.base_url =
                   IF args.base_url.some THEN args.base_url.val
                   ELSE IF environ["JSCOM_API_BASE_URL"].some
                        THEN environ["JSCOM_API_BASE_URL"].val
                        ELSE DefaultBaseUrl
            /\ c.auth_token =
                   IF args.auth_token.some THEN args.auth_token
                   ELSE environ["JSCOM_API_TOKEN"]
            /\ IF args.timeout.some THEN c.timeout = args.timeout.val
               ELSE IF env_timeout.some
                    THEN float(env_timeout.val).kind = "return" =>
                            c.timeout = float(env_timeout.val).val
                    ELSE c.timeout = Num(DefaultTimeout)

\* the text parses as a positive number
ParsesPositive(text) ==
    float(text).kind = "return" /\ FloatGt(float(text).val, Num(0))

\* C9: with no explicit timeout and a timeout variable that is present but
\* not parseable as a positive number, the resolved timeout is the default.
C9_SoftFallback ==
    (/\ call = "load_config"
     /\ ~args.timeout.some
     /\ environ["JSCOM_API_TIMEOUT"].some
     /\ ~ParsesPositive(environ["JSCOM_API_TIMEOUT"].val)) =>
        config.val.timeout = Num(DefaultTimeout)

EndsWithSlash(s) == Len(s) > 0 /\ s[Len(s)] = "/"

\* C10: every configuration that resolution followed by construction yields
\* has a base_url that does not end in "/" and a timeout > 0.
C10_ConfigurationInvariant ==
    (call = "JscomApiClient" /\ outcome.kind = "return") =>
        /\ ~EndsWithSlash(client.val.base_url)
        /\ FloatGt(client.val.timeout, Num(0))

\* C11: resolution followed by construction fails only if a timeout <= 0 was
\* supplied as an explicit argument, and then it always fails; no value of
\* the environment makes it fail.
C11_OnlyExplicitTimeoutFails ==
    (call = "JscomApiClient") =>
        (outcome.kind = "raise" <=>
            (args.timeout.some /\ FloatLe(args.timeout.val, Num(0))))

(***************************************************************************)
(* Properties of the requests (checked under Spec).                        *)
(***************************************************************************)
\* C13: a request carries x-auth-token if and only if it is the POST and a
\* non-empty token is configured; the value is then the configured token,
\* never the empty string; the GET never carries it.
C13_AuthHeader ==
    request.some =>
        LET r == request.val
            token == client.val.auth_token
        IN  /\ ("x-auth-token" \in DOMAIN r.headers) <=> (r.method = "POST" /\ Truthy(token))
            /\ ("x-auth-token" \in DOMAIN r.headers) =>
                    /\ r.headers["x-auth-token"] = Chars(token.val)
                    /\ Len(token.val) > 0

\* a POST went out carrying the configured token
C13_Witness ==
    /\ request.some
    /\ request.val.method = "POST"
    /\ "x-auth-token" \in DOMAIN request.val.headers

\* C14: the body of the POST update_dns issues is exactly the two-key object
\* {"domain": domain, "ip": ip} of its arguments.
C14_Payload ==
    (call = "update_dns") =>
        /\ request.val.json.some
        /\ DOMAIN request.val.json.val = {"domain", "ip"}
        /\ request.val.json.val["domain"] = params.domain
        /\ request.val.json.val["ip"] = params.ip

\* a successful update_dns call
C14_Witness ==
    /\ call = "update_dns"
    /\ outcome.kind = "return"
    /\ request.val.method = "POST"

(***************************************************************************)
(* Properties of the commands (checked under SpecCli).                     *)
(***************************************************************************)
EndpointPath(req) == IF req.method = "GET" THEN "/v1/ip/my" ELSE "/v1/dns/update"

\* C12: the normalized base URL is the resolved one without its trailing
\* slashes: it never ends in "/", normalizing it again changes nothing, it
\* followed by one or by many slashes normalizes to it, and the URL of every
\* request is it followed by the endpoint path.
C12_Normalization ==
    client.some =>
        LET u == config.val.base_url
            n == client.val.base_url
        IN  /\ \E k \in 0..Len(u) : u = n \o Slashes(k)
            /\ ~EndsWithSlash(n)
            /\ rstrip(n, "/") = n
            /\ \A k \in 1..(MaxSlashes + 1) : rstrip(n \o Slashes(k), "/") = n
            /\ \A i \in 1..Len(sent) : sent[i].url = <<Chars(n), Lit(EndpointPath(sent[i]))>>

\* a request went out from a base URL given with several trailing slashes
C12_Witness ==
    /\ client.some
    /\ Len(sent) > 0
    /\ Len(client.val.base_url) > 0
    /\ Len(config.val.base_url) >= Len(client.val.base_url) + 2

\* --ip was given / exactly one of --ip and --use-current-ip was given
IpGiven == cmd.ip_address.some
BothGiven == IpGiven /\ cmd.use_current_ip
NeitherGiven == ~IpGiven /\ ~cmd.use_current_ip

\* C15: dns update checks its options before anything else: with both --ip
\* (whatever its value) and --use-current-ip, or with neither, it exits with
\* code 1 and resolves no configuration, opens no session and issues no
\* request; it goes on only when exactly one is given.
C15_ValidationFirst ==
    (cmd.name = "dns update" /\ pc # "validate" /\ (BothGiven \/ NeitherGiven)) =>
        /\ pc = "done"
        /\ exit_code = Some(1)
        /\ config = None
        /\ acquired = 0
        /\ sent = <<>>

\* C16: the exit code of dns update is 0 when update_dns returned a result, 2
\* when an Authentication error was raised, 1 when any other exception was
\* raised by get_my_ip, update_dns or the construction of the client.
C16_ExitCodes ==
    (cmd.name = "dns update" /\ pc = "done"
        /\ call \in {"JscomApiClient", "get_my_ip", "update_dns"}) =>
        /\ (call = "update_dns" /\ outcome.kind = "return") => exit_code = Some(0)
        /\ (outcome.kind = "raise" /\ outcome.exc = "AuthenticationError") =>
                exit_code = Some(2)
        /\ (outcome.kind = "raise" /\ outcome.exc # "AuthenticationError") =>
                exit_code = Some(1)

Methods(reqs) == [i \in 1..Len(reqs) |-> reqs[i].method]

CallFailed ==
    /\ call \in {"get_my_ip", "update_dns"}
    /\ pc \notin {"await_get", "await_post"}
    /\ outcome.kind = "raise"

\* C19: each endpoint is requested at most once per invocation, so at most
\* two requests go out, and never two at a time; after a failed call no
\* request is issued and the invocation ends with a non-zero exit code.
C19_NoRetries ==
    /\ [](/\ Cardinality({i \in 1..Len(sent) : sent[i].method = "GET"}) <= 1
          /\ Cardinality({i \in 1..Len(sent) : sent[i].method = "POST"}) <= 1
          /\ Len(sent) <= 2
          /\ (CallFailed /\ pc = "done") => (exit_code.some /\ exit_code.val # 0))
    /\ [][Len(sent') > Len(sent) => (inflight = None /\ ~CallFailed)]_vars
    /\ (CallFailed ~> (pc = "done"))

\* the second of two requests failed and the command exited with an error
C19_Witness ==
    /\ pc = "done"
    /\ Len(sent) = 2
    /\ CallFailed
    /\ exit_code.val # 0

\* C20: the session is acquired at most once per invocation, and whenever it
\* was acquired it has been released exactly once when the exit code is
\* produced, on every path out of the command.
C20_ScopedRelease ==
    /\ acquired <= 1
    /\ released <= acquired
    /\ exit_code.some => released = acquired
    /\ exit_code.some /\ client.some => client.val.session = "closed"

\* the scope was left by the early exit inside it and the session was closed
C20_Witness ==
    /\ pc = "done"
    /\ pending = "Exit"
    /\ acquired = 1
    /\ released = 1

\* C21: every invocation of ip and dns update ends with exit code 0, 1 or 2
\* and no exception leaves the command: an exception raised after the
\* validation of the options that is not an API error is caught by the
\* command and ends it with exit code 1.
C21_NoCrash ==
    (pc = "done") =>
        /\ exit_code \in {Some(0), Some(1), Some(2)}
        /\ pending # "MarkupError"
        /\ (pending # "" /\ pending \notin ApiErrors) => exit_code = Some(1)

\* C25: the exit code is 2 only in dns update and only when the POST was
\* answered with status 403; the ip command never exits with 2, and a GET
\* that fails in dns update, with status 403 or otherwise, exits with 1.
C25_TwoOnlyOnPostForbidden ==
    /\ exit_code = Some(2) =>
            /\ cmd.name = "dns update"
            /\ call = "update_dns"
            /\ sent[Len(sent)].method = "POST"
            /\ ~response.val.failed /\ response.val.status_code = 403
    /\ cmd.name = "ip" => exit_code # Some(2)
    /\ (cmd.name = "dns update" /\ pc = "done" /\ call = "get_my_ip"
            /\ outcome.kind = "raise") => exit_code = Some(1)

\* dns update --use-current-ip ended with 1 after a 403 on the GET
C25_Witness ==
    /\ cmd.name = "dns update"
    /\ pc = "done"
    /\ call = "get_my_ip"
    /\ ~response.val.failed /\ response.val.status_code = 403
    /\ exit_code = Some(1)

\* C26: the ip of every POST the command issues is a non-empty value; when
\* get_my_ip returned an empty or null ip the command issues no POST and
\* exits with 1.
C26_NoEmptyIpPosted ==
    /\ \A i \in 1..Len(sent) :
            sent[i].method = "POST" => PyTruthy(sent[i].json.val["ip"])
    /\ (cmd.name = "dns update" /\ pc \in {"release", "handle", "done"}
            /\ call = "get_my_ip" /\ outcome.kind = "return"
            /\ ~PyTruthy(outcome.val.ip)) =>
                /\ Methods(sent) = <<"GET">>
                /\ pc = "done" => exit_code = Some(1)

\* the fetched ip was null and the command ended with 1 after its GET
C26_Witness ==
    /\ cmd.name = "dns update"
    /\ pc = "done"
    /\ call = "get_my_ip" /\ outcome.kind = "return"
    /\ outcome.val.ip = JNull
    /\ Methods(sent) = <<"GET">>
    /\ exit_code = Some(1)

\* C27: in every invocation, whatever ran before in the process, the shared
\* state holds the flags of this invocation (None for a flag not given), and
\* the configuration and the client are those resolved from these flags and
\* the current environment.
C27_NoLeak ==
    (pc # "idle") =>
        LET resolved == load_config(cmd.base_url, cmd.token, None, environ)
        IN  /\ state = [base_url |-> cmd.base_url, token |-> cmd.token]
            /\ config.some =>
                    /\ args = [base_url |-> cmd.base_url, auth_token |-> cmd.token,
                               timeout |-> None]
                    /\ config.val = resolved
            /\ client.some =>
                    /\ client.val.base_url = rstrip(resolved.base_url, "/")
                    /\ client.val.auth_token = resolved.auth_token

\* an invocation without flags has begun in a process whose last invocation
\* had resolved its configuration from both flags
C27_Witness ==
    /\ pc \in {"validate", "resolve"}
    /\ args.base_url.some /\ args.auth_token.some
    /\ ~cmd.base_url.some /\ ~cmd.token.some
    /\ state = NoState

(***************************************************************************)
(* Properties of the service (checked under SpecService).                  *)
(***************************************************************************)
\* the value of the x-auth-token header of the event, None without one
TokenHeader ==
    IF event.headers.some /\ HasKey(event.headers.val, X_AUTH_TOKEN)
    THEN Some(event.headers.val.o[X_AUTH_TOKEN].s)
    ELSE None

\* the handler answered with this status
Answered(status) == reply.kind = "return" /\ reply.val.statusCode = status

\* C22: the DNS-update service calls Route 53 only for a request whose
\* x-auth-token header equals a configured AUTH_TOKEN; a request without the
\* header, or with another value, is answered 403 and no call is made,
\* whether AUTH_TOKEN is set or not.
C22_TokenVerified ==
    (event.handler = "update_dns_lambda") =>
        LET authorized ==
                /\ TokenHeader.some
                /\ svc_environ["AUTH_TOKEN"].some
                /\ TokenHeader.val = svc_environ["AUTH_TOKEN"].val
        IN  /\ route53 # <<>> => authorized
            /\ ~authorized => (Answered(403) /\ route53 = <<>>)

\* the event has a body that json.loads reads / with a non-empty value at key
BodyGiven == event.body.some /\ NonEmptyText(event.body.val.text)
BodyHas(key) ==
    IF BodyGiven /\ event.body.val.json.ok /\ HasKey(event.body.val.json.val, key)
    THEN PyTruthy(event.body.val.json.val.o[key])
    ELSE FALSE

\* C23: the DNS-update service checks in this order and stops at the first
\* failure: token mismatch, 403; unparseable body, 400; missing or empty
\* domain or ip, 400; hosted zone not configured, 500; only then Route 53 is
\* called, once; 200 exactly when that call succeeded, 500 when it failed.
\* The status is always one of 200, 400, 403, 500.
C23_CheckOrder ==
    (event.handler = "update_dns_lambda") =>
        LET mismatch == TokenHeader # svc_environ["AUTH_TOKEN"]
            unparseable == BodyGiven /\ ~event.body.val.json.ok
            missing == ~BodyHas(DOMAIN_KEY) \/ ~BodyHas(IP)
            unconfigured == ~Truthy(svc_environ["HOSTED_ZONE_ID"])
        IN  /\ reply.kind = "return"
            /\ reply.val.statusCode \in {200, 400, 403, 500}
            /\ Len(route53) <= 1
            /\ Answered(200) <=> (Len(route53) = 1 /\ route53[1].ok)
            /\ IF mismatch THEN Answered(403) /\ route53 = <<>>
               ELSE IF unparseable THEN Answered(400) /\ route53 = <<>>
               ELSE IF missing THEN Answered(400) /\ route53 = <<>>
               ELSE IF unconfigured THEN Answered(500) /\ route53 = <<>>
               ELSE /\ Len(route53) = 1
                    /\ ~route53[1].ok => Answered(500)

\* C24: the client reads every answer of the DNS-update service as meant:
\* 200 (whose body has message and change_info) gives a result with them,
\* 403 an Authentication error, 400 a Validation error, 500 a Server error;
\* every answer of the my-IP service is a 200 with a JSON object with key
\* ip, and get_my_ip returns it.
C24_Compatible ==
    /\ (event.handler = "update_dns_lambda" /\ Answered(200)) =>
            /\ HasKey(reply.val.body, MESSAGE)
            /\ HasKey(reply.val.body, CHANGE_INFO)
    /\ (event.handler = "my_ip_lambda" /\ reply.kind = "return") =>
            /\ Answered(200)
            /\ HasKey(reply.val.body, IP)
    /\ (call = "update_dns") =>
            CASE Answered(200) ->
                    /\ outcome.kind = "return"
                    /\ outcome.val.message = reply.val.body.o[MESSAGE]
                    /\ outcome.val.change_info = Jsonable(reply.val.body.o[CHANGE_INFO])
              [] Answered(403) -> Raised("AuthenticationError")
              [] Answered(400) -> Raised("ValidationError")
              [] Answered(500) -> Raised("ServerError")
              [] OTHER -> FALSE
    /\ (call = "get_my_ip") =>
            /\ outcome.kind = "return"
            /\ outcome.val.ip = reply.val.body.o[IP]

\* the client read the 200 of the DNS-update service as a result
C24_Witness ==
    /\ call = "update_dns"
    /\ Answered(200)
    /\ outcome.kind = "return"
    /\ HasKey(outcome.val.change_info, <<"C", "h", "a", "n", "g", "e", "I", "n", "f", "o">>)

====
